---- MODULE Spec2Model ----
(***************************************************************************)
(* Model of the per-namespace health watcher of k8s-ephemeral-resources:   *)
(* the WatcherContext of src/src/types.go (pod table, ClusterState, merge  *)
(* rule) and the monitor loop watchPodsInNamespace with retaliate (the     *)
(* main program that follows the tests in src/src/types_test.go), and the  *)
(* supervisor watchNamespaces with its registry of monitors.                *)
(*                                                                         *)
(* Time is counted in minutes.  One iteration of the monitor's select loop *)
(* (receive an event, updateClusterState, retaliate, reset of since) is    *)
(* one action; the clock advances between iterations.                      *)
(***************************************************************************)
EXTENDS Integers, Sequences, FiniteSets, TLC

\* ---------------------------------------------------------------- bounds
MaxTime == 2            \* the clock runs over 0..MaxTime

\* ---------------------------------------------------------------- inputs
GracePeriods == {1, 2}  \* the values of -retaliateGracePeriodMin, in minutes

\* ------------------------------------------------------------- constants
TickInterval == 1       \* time.After(1 * time.Minute)
TestGracePeriod == 1    \* createWatcherContext: time.Minute

namespaceName == "ns"
PodNames == {"toto1", "toto2"}

HEALTHY == "HEALTHY"
UNHEALTHY == "UNHEALTHY"

PodRunning == "Running"
ConditionTrue == "True"

Time == 0..MaxTime

\* v1.PodCondition, reduced to the two fields the tests set
Cond(type, status) == [Type |-> type, Status |-> status]

\* v1.PodStatus: Phase and Conditions are what the watcher looks at; Message
\* stands for the fields it stores but never compares.
Pod(phase, conditions, message) ==
    [Phase |-> phase, Conditions |-> conditions, Message |-> message]

\* The observations a pod event can carry: every branch of the classifier
\* and of the merge rule has a representative.
PodStatuses ==
    { Pod("Running", <<>>, ""),
      Pod("Running", <<Cond("PodScheduled", "True")>>, ""),
      Pod("Running", <<Cond("PodScheduled", "True"), Cond("Ready", "False")>>, ""),
      Pod("Running", <<Cond("PodScheduled", "Unknown")>>, ""),
      Pod("Pending", <<Cond("PodScheduled", "True")>>, ""),
      Pod("Pending", <<Cond("PodScheduled", "True")>>, "ContainerCreating"),
      Pod("Failed", <<Cond("PodScheduled", "True")>>, "") }

VARIABLES
    now,                  \* the clock read by time.Now()
    pc,                   \* position of watchPodsInNamespace
    selectAt,             \* instant the current select (and its timer) started
    retaliateGracePeriod, \* WatcherContext.retaliateGracePeriod
    podsStatus,           \* WatcherContext.podsStatus
    clusterState,         \* WatcherContext.clusterState
    podKilledCounter,     \* WatcherContext.podKilledCounter
    lastEvent,            \* what the last select received: a tick, a pod event, a closed stream
    replaced,             \* the last updateClusterState stored its candidate
    ret,                  \* what the last retaliate returned
    killed,               \* the killPod calls of the last retaliate
    killOutcome,          \* how the last killPod call ended, "none" when the last cycle made none
    killCalls,            \* number of killPod invocations so far
    lastKillAt,           \* instant of the latest killPod invocation, if any
    episodeKills,         \* killPod invocations since the merge last stored a candidate
    prevUnhealthy,        \* names of the stored unhealthy pods before the last cycle
    lastSeen,             \* per pod name, the status its last event carried, unless a Deleted
    candidate,            \* what the last direct call of evaluateClusterState returned
    watcherContexts,      \* the registry of watchNamespaces: namespace -> its monitor
    monitors,             \* per namespace, the position of every goroutine started for it
    supPc,                \* position of watchNamespaces
    nsEvent,              \* the namespace event watchNamespaces received last
    killedIn,             \* namespaces in which a monitor invoked killPod
    silent,               \* the pod watch stream has stalled: it delivers nothing any more
    clusterPods,          \* the pods of the namespace in the cluster, with their status
    pending               \* pods whose Added event the current pod stream has still to replay

\* the variables of the unit tests that call evaluateClusterState directly
testVars == <<candidate>>

\* the pod stream and the cluster behind it; they move only in the
\* specifications that follow a stalled stream or a replay
envVars == <<silent, clusterPods, pending>>

\* the variables of watchNamespaces and of the goroutines it starts
supVars == <<watcherContexts, monitors, supPc, nsEvent, killedIn>>

vars == <<now, pc, selectAt, retaliateGracePeriod, podsStatus, clusterState,
          podKilledCounter, lastEvent, replaced, ret, killed, killOutcome, killCalls,
          lastKillAt, episodeKills, prevUnhealthy, lastSeen, envVars, testVars,
          supVars>>

\* ------------------------------------------------------------ types.go
EmptyMap == [n \in {} |-> Pod("Running", <<>>, "")]

\* ------------------------------------------------- namespaces (main)
\* the namespaces of the cluster; the filter of -filterNamespaces is "mem"
Namespaces == {"mem-1", "kube-system"}

\* filterNamespacesRegexp.MatchString(namespaceName), filter "mem"
isAllowedNamespace(name) == name \in {"mem-1"}

\* event.Object == nil
NoObject == ""

\* a watch.Event of the namespace stream as its handler sees it: its Type,
\* the name of its Object (NoObject when the Object is nil) and whether the
\* registry held that name when the event arrived
NsEvent(type, name, isPresent) ==
    [Type |-> type, Name |-> name, isPresent |-> isPresent]

\* make(map[string]WatcherContext)
EmptyRegistry == [ns \in {} |-> 0]

\* makeClusterState calling one unhealthy pod still healthy
makeClusterStateOffByOne(unhealthyPods, t) ==
    [health        |-> IF Cardinality(DOMAIN unhealthyPods) > 1
                       THEN UNHEALTHY ELSE HEALTHY,
     unhealthyPods |-> unhealthyPods,
     since         |-> t]

\* makeClusterState; t is the value time.Now() returns
makeClusterState(unhealthyPods, t) ==
    [health        |-> IF Cardinality(DOMAIN unhealthyPods) > 0
                       THEN UNHEALTHY ELSE HEALTHY,
     unhealthyPods |-> unhealthyPods,
     since         |-> t]

\* the range loop of isPodHealthy, from index i on
RECURSIVE conditionsLoop(_, _)
conditionsLoop(conditions, i) ==
    IF i > Len(conditions) THEN TRUE
    ELSE IF conditions[i].Status # ConditionTrue THEN FALSE
    ELSE conditionsLoop(conditions, i + 1)

\* isPodHealthy without the test of the phase
isPodHealthyAnyPhase(pod) == conditionsLoop(pod.Conditions, 1)

isPodHealthy(pod) ==
    IF pod.Phase # PodRunning THEN FALSE
    ELSE conditionsLoop(pod.Conditions, 1)

\* evaluateClusterState keeping every pod of the table
evaluateClusterStateKeepsAll(pods, t) == makeClusterState(pods, t)

evaluateClusterState(pods, t) ==
    LET unhealthyNames == {podName \in DOMAIN pods : ~isPodHealthy(pods[podName])}
        unhealthyPods == [podName \in unhealthyNames |-> pods[podName]]
    IN makeClusterState(unhealthyPods, t)

\* cmp.Equal on two condition slices
cmpEqual(a, b) ==
    /\ Len(a) = Len(b)
    /\ \A i \in 1..Len(a) : a[i] = b[i]

\* updateClusterState comparing the whole states, since included
mustReplaceWholeState(old, state) == old # state

\* updateClusterState skipping a stored name the candidate lacks
mustReplaceSkipsMissing(old, state) ==
    \/ old.health # state.health
    \/ Cardinality(DOMAIN old.unhealthyPods) # Cardinality(DOMAIN state.unhealthyPods)
    \/ \E podName \in DOMAIN old.unhealthyPods \cap DOMAIN state.unhealthyPods :
          \/ state.unhealthyPods[podName].Phase # old.unhealthyPods[podName].Phase
          \/ ~cmpEqual(state.unhealthyPods[podName].Conditions,
                       old.unhealthyPods[podName].Conditions)

\* the four places where updateClusterState assigns the candidate
mustReplace(old, state) ==
    \/ old.health # state.health
    \/ Cardinality(DOMAIN old.unhealthyPods) # Cardinality(DOMAIN state.unhealthyPods)
    \/ \E podName \in DOMAIN old.unhealthyPods :
          \/ podName \notin DOMAIN state.unhealthyPods
          \/ /\ podName \in DOMAIN state.unhealthyPods
             /\ \/ state.unhealthyPods[podName].Phase # old.unhealthyPods[podName].Phase
                \/ ~cmpEqual(state.unhealthyPods[podName].Conditions,
                             old.unhealthyPods[podName].Conditions)

\* updateClusterState adopting the candidate whatever the comparison says
updateClusterStateAlwaysAdopts(pods, old, t) == evaluateClusterState(pods, t)

updateClusterState(pods, old, t) ==
    LET state == evaluateClusterState(pods, t)
    IN IF mustReplace(old, state) THEN state ELSE old

\* ------------------------------------------------------ retaliate (main)
\* one killPod call per entry of the unhealthy mapping, in map order
RECURSIVE killLoop(_, _)
killLoop(unhealthyPods, names) ==
    IF names = {} THEN <<>>
    ELSE LET podName == CHOOSE n \in names : TRUE
         IN <<[namespace |-> namespaceName, podName |-> podName,
               pod |-> unhealthyPods[podName]]>>
            \o killLoop(unhealthyPods, names \ {podName})

\* retaliate without the safeguard on the number of unhealthy pods
retaliateNoSafeguard(state, gracePeriod, t) ==
    IF state.health = HEALTHY \/ t - state.since < gracePeriod
      THEN [ret |-> FALSE, calls |-> <<>>]
    ELSE [ret |-> TRUE,
          calls |-> killLoop(state.unhealthyPods, DOMAIN state.unhealthyPods)]

\* retaliate without the test of the health
retaliateIgnoresHealth(state, gracePeriod, t) ==
    IF t - state.since < gracePeriod
      THEN [ret |-> FALSE, calls |-> <<>>]
    ELSE IF Cardinality(DOMAIN state.unhealthyPods) > 1
      THEN [ret |-> FALSE, calls |-> <<>>]
    ELSE [ret |-> TRUE,
          calls |-> killLoop(state.unhealthyPods, DOMAIN state.unhealthyPods)]

\* retaliate without the test of the grace period
retaliateNoGrace(state, gracePeriod, t) ==
    IF state.health = HEALTHY
      THEN [ret |-> FALSE, calls |-> <<>>]
    ELSE IF Cardinality(DOMAIN state.unhealthyPods) > 1
      THEN [ret |-> FALSE, calls |-> <<>>]
    ELSE [ret |-> TRUE,
          calls |-> killLoop(state.unhealthyPods, DOMAIN state.unhealthyPods)]

\* retaliate waiting for strictly more than the grace period
retaliateStrictGrace(state, gracePeriod, t) ==
    IF state.health = HEALTHY \/ t - state.since <= gracePeriod
      THEN [ret |-> FALSE, calls |-> <<>>]
    ELSE IF Cardinality(DOMAIN state.unhealthyPods) > 1
      THEN [ret |-> FALSE, calls |-> <<>>]
    ELSE [ret |-> TRUE,
          calls |-> killLoop(state.unhealthyPods, DOMAIN state.unhealthyPods)]

\* the result and the killPod calls of retaliate at instant t
retaliate(state, gracePeriod, t) ==
    LET elapsed == t - state.since
    IN IF state.health = HEALTHY \/ elapsed < gracePeriod
         THEN [ret |-> FALSE, calls |-> <<>>]
       ELSE IF Cardinality(DOMAIN state.unhealthyPods) > 1
         THEN [ret |-> FALSE, calls |-> <<>>]
       ELSE [ret |-> TRUE,
             calls |-> killLoop(state.unhealthyPods, DOMAIN state.unhealthyPods)]

\* killPod (main): the dry-run closure logs and returns; the other one calls
\* Pods(namespace).Delete and logs its error, if any. Neither returns a
\* value. The set holds the ways the calls of one retaliate can end.
killPod(calls) ==
    IF calls = <<>> THEN {"none"} ELSE {"fake", "deleted", "failed"}

\* context.podKilledCounter.Inc() counting the deletions that succeeded only
podKilledCounterIncOnSuccess(counter, calls, outcome) ==
    IF outcome = "deleted" THEN counter + Len(calls) ELSE counter

\* context.podKilledCounter.Inc(): once per entry of the range loop, before
\* killPod is called
podKilledCounterInc(counter, calls, outcome) == counter + Len(calls)

\* retaliate reporting false when the deletion failed
retaliateReturnUnlessFailed(r, outcome) == r.ret /\ outcome # "failed"

\* return true after the range loop: killPod returns nothing, so the result
\* of retaliate does not depend on how the deletion ended
retaliateReturn(r, outcome) == r.ret

\* the monitor loop without the reset of since
resetSinceNever(state, acted, t) == state

\* the monitor loop resetting since to the zero time
resetSinceZero(state, acted, t) ==
    IF acted THEN [state EXCEPT !.since = 0] ELSE state

\* if retaliate(context) { context.clusterState.since = time.Now() }
resetSince(state, acted, t) ==
    IF acted THEN [state EXCEPT !.since = t] ELSE state

\* --------------------------------------------------------------- Init
\* makeWatcherContext, then the goroutine about to open its pod watch
Init ==
    /\ now = 0
    /\ pc = "restart"
    /\ selectAt = 0
    /\ retaliateGracePeriod \in GracePeriods
    /\ podsStatus = EmptyMap
    /\ clusterState = makeClusterState(EmptyMap, 0)
    /\ podKilledCounter = 0
    /\ lastEvent = "None"
    /\ replaced = FALSE
    /\ ret = FALSE
    /\ killed = <<>>
    /\ killOutcome = "none"
    /\ killCalls = 0
    /\ lastKillAt = 0
    /\ episodeKills = 0
    /\ prevUnhealthy = {}
    /\ lastSeen = EmptyMap
    /\ candidate = makeClusterState(EmptyMap, 0)
    /\ watcherContexts = EmptyRegistry
    /\ monitors = [ns \in Namespaces |-> <<>>]
    /\ supPc = "watch"
    /\ nsEvent = NsEvent("None", NoObject, FALSE)
    /\ killedIn = {}
    /\ silent = FALSE
    /\ clusterPods = EmptyMap
    /\ pending = {}

\* ------------------------------------------- watchPodsInNamespace (main)
\* the tail of the loop body calling retaliate before updateClusterState
CycleRetaliateFirst(kind, pods) ==
    LET r      == retaliate(clusterState, retaliateGracePeriod, now)
        merged == updateClusterState(pods, clusterState, now)
        rep    == mustReplace(clusterState, evaluateClusterState(pods, now))
    IN /\ podsStatus' = pods
       /\ \E outcome \in killPod(r.calls) :
             /\ killOutcome' = outcome
             /\ ret' = retaliateReturn(r, outcome)
             /\ clusterState' = resetSince(merged, retaliateReturn(r, outcome), now)
             /\ podKilledCounter' = podKilledCounterInc(podKilledCounter, r.calls, outcome)
       /\ replaced' = rep
       /\ killed' = r.calls
       /\ killCalls' = killCalls + Len(r.calls)
       /\ lastKillAt' = IF Len(r.calls) > 0 THEN now ELSE lastKillAt
       /\ prevUnhealthy' = DOMAIN clusterState.unhealthyPods
       /\ episodeKills' = (IF rep THEN 0 ELSE episodeKills) + Len(r.calls)
       /\ lastEvent' = kind
       /\ selectAt' = now
       /\ UNCHANGED <<now, pc, retaliateGracePeriod, testVars, supVars>>

\* The tail of the loop body: updateClusterState, retaliate and, when it
\* acted, the reset of since; pods is the table the event left.
Cycle(kind, pods) ==
    LET merged == updateClusterState(pods, clusterState, now)
        rep    == mustReplace(clusterState, evaluateClusterState(pods, now))
        r      == retaliate(merged, retaliateGracePeriod, now)
    IN /\ podsStatus' = pods
       /\ \E outcome \in killPod(r.calls) :
             /\ killOutcome' = outcome
             /\ ret' = retaliateReturn(r, outcome)
             /\ clusterState' = resetSince(merged, retaliateReturn(r, outcome), now)
             /\ podKilledCounter' = podKilledCounterInc(podKilledCounter, r.calls, outcome)
       /\ replaced' = rep
       /\ killed' = r.calls
       /\ killCalls' = killCalls + Len(r.calls)
       /\ lastKillAt' = IF Len(r.calls) > 0 THEN now ELSE lastKillAt
       /\ prevUnhealthy' = DOMAIN clusterState.unhealthyPods
       /\ episodeKills' = (IF rep THEN 0 ELSE episodeKills) + Len(r.calls)
       /\ lastEvent' = kind
       /\ selectAt' = now
       /\ UNCHANGED <<now, pc, retaliateGracePeriod, testVars, supVars>>

\* the timer case continuing the loop without its tail
LivenessTickSkipsCycle ==
    /\ pc = "select"
    /\ now - selectAt >= TickInterval
    /\ selectAt' = now
    /\ lastEvent' = "Tick"
    /\ UNCHANGED <<now, pc, retaliateGracePeriod, podsStatus, clusterState,
                   podKilledCounter, replaced, ret, killed, killOutcome,
                   killCalls, lastKillAt, episodeKills, prevUnhealthy, lastSeen,
                   envVars, testVars, supVars>>

\* case <-time.After(1 * time.Minute)
LivenessTick ==
    /\ pc = "select"
    /\ now - selectAt >= TickInterval
    /\ Cycle("Tick", podsStatus)
    /\ UNCHANGED <<lastSeen, envVars>>

\* the Added/Modified handler storing the status under every tracked name
setPodStatusAll(pods, podName, status) ==
    [n \in DOMAIN pods \cup {podName} |-> status]

\* context.podsStatus[pod.Name] = pod.Status
setPodStatus(pods, podName, status) ==
    [n \in DOMAIN pods \cup {podName} |->
        IF n = podName THEN status ELSE pods[n]]

\* delete(context.podsStatus, pod.Name)
deletePodStatus(pods, podName) ==
    [n \in DOMAIN pods \ {podName} |-> pods[n]]

\* case watch.Added, watch.Modified
PodAddedOrModified ==
    /\ pc = "select"
    /\ \E podName \in PodNames, status \in PodStatuses :
          /\ Cycle("Pod", setPodStatus(podsStatus, podName, status))
          /\ lastSeen' = [n \in PodNames \cap (DOMAIN lastSeen \cup {podName}) |->
                             IF n = podName THEN status ELSE lastSeen[n]]
    /\ UNCHANGED envVars

\* case watch.Deleted
PodDeleted ==
    /\ pc = "select"
    /\ \E podName \in PodNames :
          /\ Cycle("Pod", deletePodStatus(podsStatus, podName))
          /\ lastSeen' = [n \in DOMAIN lastSeen \ {podName} |-> lastSeen[n]]
    /\ UNCHANGED envVars

\* case watch.Error / default with a non-nil object: logged, then the cycle
PodError ==
    /\ pc = "select"
    /\ Cycle("Pod", podsStatus)
    /\ UNCHANGED <<lastSeen, envVars>>

\* the closed stream handled by starting over with a fresh WatcherContext
PodStreamClosedFreshContext ==
    /\ pc = "select"
    /\ pc' = "restart"
    /\ lastEvent' = "Closed"
    /\ podsStatus' = EmptyMap
    /\ clusterState' = makeClusterState(EmptyMap, now)
    /\ UNCHANGED <<now, selectAt, retaliateGracePeriod,
                   podKilledCounter, replaced, ret, killed, killOutcome, killCalls,
                   lastKillAt, episodeKills, prevUnhealthy, lastSeen, envVars, testVars, supVars>>

\* default with a nil object (closed stream): podsEvents.Stop(); goto restart
PodStreamClosed ==
    /\ pc = "select"
    /\ pc' = "restart"
    /\ lastEvent' = "Closed"
    /\ UNCHANGED <<now, selectAt, retaliateGracePeriod, podsStatus, clusterState,
                   podKilledCounter, replaced, ret, killed, killOutcome, killCalls,
                   lastKillAt, episodeKills, prevUnhealthy, lastSeen, envVars, testVars, supVars>>

\* restart: Pods(namespace).Watch(...) succeeds and the loop is entered
WatchPods ==
    /\ pc = "restart"
    /\ pc' = "select"
    /\ selectAt' = now
    /\ UNCHANGED <<now, retaliateGracePeriod, podsStatus, clusterState,
                   podKilledCounter, lastEvent, replaced, ret, killed, killOutcome, killCalls,
                   lastKillAt, episodeKills, prevUnhealthy, lastSeen, envVars, testVars, supVars>>

\* restart: Watch returns an error and the goroutine returns
WatchPodsFailed ==
    /\ pc = "restart"
    /\ pc' = "returned"
    /\ UNCHANGED <<now, selectAt, retaliateGracePeriod, podsStatus, clusterState,
                   podKilledCounter, lastEvent, replaced, ret, killed, killOutcome, killCalls,
                   lastKillAt, episodeKills, prevUnhealthy, lastSeen, envVars, testVars, supVars>>

\* the passage of one minute
ClockAdvance ==
    /\ now < MaxTime
    /\ now' = now + 1
    /\ UNCHANGED <<pc, selectAt, retaliateGracePeriod, podsStatus, clusterState,
                   podKilledCounter, lastEvent, replaced, ret, killed, killOutcome, killCalls,
                   lastKillAt, episodeKills, prevUnhealthy, lastSeen, envVars, testVars, supVars>>

Next ==
    \/ LivenessTick
    \/ PodAddedOrModified
    \/ PodDeleted
    \/ PodError
    \/ PodStreamClosed
    \/ WatchPods
    \/ WatchPodsFailed
    \/ ClockAdvance

Spec == Init /\ [][Next]_vars

\* ------------------------------------ TestUpdateClusterState (types_test)
\* every pod table over PodNames
PodTables ==
    UNION {[names -> PodStatuses] : names \in SUBSET PodNames}

\* The unit test's step: it rewrites entries of watcher.podsStatus, then
\* calls watcher.updateClusterState() directly, outside the monitor loop.
TestUpdateClusterState ==
    \E pods \in PodTables :
       /\ podsStatus' = pods
       /\ clusterState' = updateClusterState(pods, clusterState, now)
       /\ replaced' = mustReplace(clusterState, evaluateClusterState(pods, now))
       /\ prevUnhealthy' = DOMAIN clusterState.unhealthyPods
       /\ lastEvent' = "Test"
       /\ UNCHANGED <<now, pc, selectAt, retaliateGracePeriod, podKilledCounter,
                      ret, killed, killOutcome, killCalls, lastKillAt, episodeKills,
                      lastSeen, envVars, testVars, supVars>>

NextTest ==
    \/ TestUpdateClusterState
    \/ ClockAdvance

SpecTest == Init /\ [][NextTest]_vars

\* ------------------------------------------ TestClusterState (types_test)
\* createWatcherContext: the grace period of the tests is time.Minute
InitTestClusterState ==
    /\ Init
    /\ retaliateGracePeriod = TestGracePeriod

\* watcher.podsStatus["toto1"] = createPodStatus(...): the test writes one
\* entry of the table
TestSetPodStatus ==
    \E podName \in PodNames, status \in PodStatuses :
       /\ podsStatus' = setPodStatus(podsStatus, podName, status)
       /\ UNCHANGED <<now, pc, selectAt, retaliateGracePeriod, clusterState,
                      podKilledCounter, lastEvent, replaced, ret, killed, killOutcome, killCalls,
                      lastKillAt, episodeKills, prevUnhealthy, lastSeen, envVars, testVars,
                      supVars>>

\* clusterState = watcher.evaluateClusterState(): the call assigns the
\* test's local variable and no field of the watcher
TestClusterState ==
    /\ candidate' = evaluateClusterState(podsStatus, now)
    /\ UNCHANGED <<now, pc, selectAt, retaliateGracePeriod, podsStatus, clusterState,
                   podKilledCounter, lastEvent, replaced, ret, killed, killOutcome, killCalls,
                   lastKillAt, episodeKills, prevUnhealthy, lastSeen, envVars, supVars>>

NextTestClusterState ==
    \/ TestSetPodStatus
    \/ TestClusterState
    \/ ClockAdvance

SpecTestClusterState == InitTestClusterState /\ [][NextTestClusterState]_vars

\* ----------------------------- the liveness tick on a stalled pod stream
\* podsEvents.ResultChan() stops delivering without being closed: from here
\* on the select can only take its timer case
PodStreamStalls ==
    /\ pc = "select"
    /\ ~silent
    /\ silent' = TRUE
    /\ UNCHANGED <<now, pc, selectAt, retaliateGracePeriod, podsStatus, clusterState,
                   podKilledCounter, lastEvent, replaced, ret, killed, killOutcome,
                   killCalls, lastKillAt, episodeKills, prevUnhealthy, lastSeen,
                   clusterPods, pending, testVars, supVars>>

\* the statuses the pods of this specification take: a healthy one and an
\* unhealthy one
TickStatuses ==
    { Pod("Running", <<Cond("PodScheduled", "True")>>, ""),
      Pod("Pending", <<Cond("PodScheduled", "True")>>, "") }

\* case podEvent := <-podsEvents.ResultChan(), on a stream that delivers
PodEventDelivered ==
    /\ ~silent
    /\ \/ PodAddedOrModified
       \/ PodDeleted
       \/ PodError
       \/ PodStreamClosed
    /\ \A podName \in DOMAIN podsStatus' : podsStatus'[podName] \in TickStatuses

NextTick ==
    \/ PodEventDelivered
    \/ PodStreamStalls
    \/ LivenessTick
    \/ WatchPods
    \/ WatchPodsFailed
    \/ ClockAdvance

\* Time passes, and a select whose timer has fired and whose other cases
\* have nothing to receive takes the timer case.
FairTick ==
    /\ WF_vars(ClockAdvance)
    /\ WF_vars(LivenessTick)

SpecTick == Init /\ [][NextTick]_vars /\ FairTick

\* ------------------------------ the pod stream after a resubscription
\* Here clusterPods holds the pods the namespace has. A stream that is open
\* delivers every change as it happens; a change made while the goroutine
\* is between two streams is delivered by no stream, and a new stream starts
\* with one Added event per pod the namespace has at that moment.

\* a pod is created or its status changes; the open stream delivers Added
\* or Modified
ClusterPodChanges ==
    /\ pc = "select"
    /\ pending = {}
    /\ \E podName \in PodNames, status \in TickStatuses :
          /\ clusterPods' = setPodStatus(clusterPods, podName, status)
          /\ Cycle("Pod", setPodStatus(podsStatus, podName, status))
          /\ lastSeen' = [n \in PodNames \cap (DOMAIN lastSeen \cup {podName}) |->
                             IF n = podName THEN status ELSE lastSeen[n]]
    /\ UNCHANGED <<silent, pending>>

\* a pod is deleted; the open stream delivers Deleted
ClusterPodDeleted ==
    /\ pc = "select"
    /\ pending = {}
    /\ \E podName \in DOMAIN clusterPods :
          /\ clusterPods' = deletePodStatus(clusterPods, podName)
          /\ Cycle("Pod", deletePodStatus(podsStatus, podName))
          /\ lastSeen' = [n \in DOMAIN lastSeen \ {podName} |-> lastSeen[n]]
    /\ UNCHANGED <<silent, pending>>

\* a pod is deleted after podsEvents.Stop() and before the next Watch
ClusterPodDeletedUnwatched ==
    /\ pc = "restart"
    /\ \E podName \in DOMAIN clusterPods :
          clusterPods' = deletePodStatus(clusterPods, podName)
    /\ UNCHANGED <<now, pc, selectAt, retaliateGracePeriod, podsStatus, clusterState,
                   podKilledCounter, lastEvent, replaced, ret, killed, killOutcome,
                   killCalls, lastKillAt, episodeKills, prevUnhealthy, lastSeen,
                   silent, pending, testVars, supVars>>

\* restart: Watch(metav1.ListOptions{}) succeeds; the new stream will first
\* deliver an Added event for every pod of the namespace
WatchPodsReplays ==
    /\ pc = "restart"
    /\ pc' = "select"
    /\ selectAt' = now
    /\ pending' = DOMAIN clusterPods
    /\ UNCHANGED <<now, retaliateGracePeriod, podsStatus, clusterState,
                   podKilledCounter, lastEvent, replaced, ret, killed, killOutcome,
                   killCalls, lastKillAt, episodeKills, prevUnhealthy, lastSeen,
                   silent, clusterPods, testVars, supVars>>

\* case watch.Added, for one of the events the new stream starts with
ReplayAdded ==
    /\ pc = "select"
    /\ \E podName \in pending :
          /\ pending' = pending \ {podName}
          /\ Cycle("Pod", setPodStatus(podsStatus, podName, clusterPods[podName]))
          /\ lastSeen' = [n \in PodNames \cap (DOMAIN lastSeen \cup {podName}) |->
                             IF n = podName THEN clusterPods[podName] ELSE lastSeen[n]]
    /\ UNCHANGED <<silent, clusterPods>>

NextReplay ==
    \/ ClusterPodChanges
    \/ ClusterPodDeleted
    \/ ClusterPodDeletedUnwatched
    \/ WatchPodsReplays
    \/ ReplayAdded
    \/ PodStreamClosed
    \/ LivenessTick
    \/ ClockAdvance

SpecReplay == Init /\ [][NextReplay]_vars

\* ------------------------------------------------ watchNamespaces (main)
\* Every goroutine watchNamespaces starts is followed by its position alone:
\* "restart" (opening its pod watch), "select", "cycle" (handling a tick or
\* a pod event: updateClusterState, retaliate), "returned" (the pod watch
\* could not be opened), "stopped" (it received from context.stop) and
\* "exited" (the process ended).
Running == {"restart", "select", "cycle"}

\* the goroutine the registry entry of namespace ns was made for
monitorOf(ns) == monitors[ns][watcherContexts[ns]]

\* the goroutines of namespace ns that are in their loop
runningMonitors(ns) == {i \in 1..Len(monitors[ns]) : monitors[ns][i] \in Running}

\* os.Exit, or a panic nobody recovers: every goroutine in its loop ends
processExit(mons) ==
    [ns \in Namespaces |->
        [i \in 1..Len(mons[ns]) |->
            IF mons[ns][i] \in Running THEN "exited" ELSE mons[ns][i]]]

\* makeWatcherContext has registered the counter statefulmanager_pods_killed
\* with the label namespace=name in the default registry (promauto): it did
\* so for every goroutine started for name, and nothing unregisters it
counterRegistered(name) == Len(monitors[name]) > 0

\* watcherContexts[namespaceName] = context
registerContext(contexts, name, i) ==
    [ns \in DOMAIN contexts \cup {name} |-> IF ns = name THEN i ELSE contexts[ns]]

\* delete(watcherContexts, namespaceName)
deleteContext(contexts, name) ==
    [ns \in DOMAIN contexts \ {name} |-> contexts[ns]]

\* The switch on event.Type: "start" registers a context and starts its
\* goroutine, "stop" sends on the context's stop channel and deletes the
\* entry, "restart" stops the watch and opens a new one, "break" does nothing.
\* the switch without the test that spares a namespace already registered
nsActionNoPresenceTest(type, name, contexts) ==
    CASE type = "Added" ->
            IF ~isAllowedNamespace(name) THEN "break" ELSE "start"
      [] type = "Deleted" ->
            IF name \notin DOMAIN contexts \/ name = "" THEN "break" ELSE "stop"
      [] type = "Modified" -> "break"
      [] OTHER -> IF name = NoObject THEN "restart" ELSE "break"

\* the switch without the test of the filter
nsActionNoFilter(type, name, contexts) ==
    CASE type = "Added" ->
            IF name \in DOMAIN contexts THEN "break" ELSE "start"
      [] type = "Deleted" ->
            IF name \notin DOMAIN contexts \/ name = "" THEN "break" ELSE "stop"
      [] type = "Modified" -> "break"
      [] OTHER -> IF name = NoObject THEN "restart" ELSE "break"

\* the switch handling Modified in the case of Added
nsActionModifiedAsAdded(type, name, contexts) ==
    CASE type \in {"Added", "Modified"} ->
            IF ~isAllowedNamespace(name) THEN "break"
            ELSE IF name \in DOMAIN contexts THEN "break"
            ELSE "start"
      [] type = "Deleted" ->
            IF name \notin DOMAIN contexts \/ name = "" THEN "break" ELSE "stop"
      [] OTHER -> IF name = NoObject THEN "restart" ELSE "break"

nsAction(type, name, contexts) ==
    CASE type = "Added" ->
            IF ~isAllowedNamespace(name) THEN "break"
            ELSE IF name \in DOMAIN contexts THEN "break"
            ELSE "start"
      [] type = "Deleted" ->
            IF name \notin DOMAIN contexts \/ name = "" THEN "break" ELSE "stop"
      [] type = "Modified" -> "break"
      [] OTHER -> IF name = NoObject THEN "restart" ELSE "break"

\* Namespaces().Watch(...) succeeds and the range over its events begins
WatchNamespaces ==
    /\ supPc = "watch"
    /\ supPc' = "range"
    /\ UNCHANGED <<watcherContexts, monitors, nsEvent, killedIn>>
    /\ UNCHANGED <<now, pc, selectAt, retaliateGracePeriod, podsStatus, clusterState,
                   podKilledCounter, lastEvent, replaced, ret, killed, killOutcome, killCalls,
                   lastKillAt, episodeKills, prevUnhealthy, lastSeen, envVars, testVars>>

\* Namespaces().Watch(...) returns an error: log.Fatal ends the process and
\* every goroutine with it
WatchNamespacesFailed ==
    /\ supPc = "watch"
    /\ supPc' = "exited"
    /\ monitors' = processExit(monitors)
    /\ UNCHANGED <<watcherContexts, nsEvent, killedIn>>
    /\ UNCHANGED <<now, pc, selectAt, retaliateGracePeriod, podsStatus, clusterState,
                   podKilledCounter, lastEvent, replaced, ret, killed, killOutcome, killCalls,
                   lastKillAt, episodeKills, prevUnhealthy, lastSeen, envVars, testVars>>

\* One iteration of the range loop of watchNamespaces, on the event of type
\* type whose object is named name.  The send on watcherContext.stop blocks:
\* the handler of a Deleted event is left at "send" until the goroutine
\* receives (StopDelivered).  makeWatcherContext calls promauto.NewCounter,
\* which panics when a counter of the same name and labels is registered
\* already: a second registration of a namespace name ends the process.
HandleNamespaceEvent(type, name) ==
    LET action == nsAction(type, name, watcherContexts)
    IN /\ supPc = "range"
       /\ nsEvent' = NsEvent(type, name, name \in DOMAIN watcherContexts)
       /\ CASE action = "start" ->
                  IF counterRegistered(name)
                    THEN /\ supPc' = "exited"
                         /\ monitors' = processExit(monitors)
                         /\ UNCHANGED watcherContexts
                    ELSE /\ monitors' = [monitors EXCEPT ![name] = Append(@, "restart")]
                         /\ watcherContexts' =
                               registerContext(watcherContexts, name,
                                               Len(monitors[name]) + 1)
                         /\ UNCHANGED supPc
            [] action = "stop" ->
                  /\ supPc' = "send"
                  /\ UNCHANGED <<watcherContexts, monitors>>
            [] action = "restart" ->
                  /\ supPc' = "watch"
                  /\ UNCHANGED <<watcherContexts, monitors>>
            [] OTHER -> UNCHANGED <<watcherContexts, monitors, supPc>>
       /\ UNCHANGED killedIn
       /\ UNCHANGED <<now, pc, selectAt, retaliateGracePeriod, podsStatus, clusterState,
                      podKilledCounter, lastEvent, replaced, ret, killed, killOutcome, killCalls,
                      lastKillAt, episodeKills, prevUnhealthy, lastSeen, envVars, testVars>>

\* case watch.Added
NamespaceAdded == \E name \in Namespaces : HandleNamespaceEvent("Added", name)

\* case watch.Deleted
NamespaceDeleted == \E name \in Namespaces : HandleNamespaceEvent("Deleted", name)

\* case watch.Modified
NamespaceModified == \E name \in Namespaces : HandleNamespaceEvent("Modified", name)

\* case watch.Error / default: the object is nil or a status
NamespaceError == \E name \in {NoObject, "Status"} : HandleNamespaceEvent("Error", name)

\* the channel of the namespace watch is closed: the range loop ends and the
\* enclosing for loop opens a new watch
NamespaceStreamClosed ==
    /\ supPc = "range"
    /\ nsEvent' = NsEvent("Closed", NoObject, FALSE)
    /\ supPc' = "watch"
    /\ UNCHANGED <<watcherContexts, monitors, killedIn>>
    /\ UNCHANGED <<now, pc, selectAt, retaliateGracePeriod, podsStatus, clusterState,
                   podKilledCounter, lastEvent, replaced, ret, killed, killOutcome, killCalls,
                   lastKillAt, episodeKills, prevUnhealthy, lastSeen, envVars, testVars>>

\* the stop signal left in a buffered channel: the supervisor does not wait
\* for the goroutine to receive it
StopDeliveredBuffered ==
    /\ supPc = "send"
    /\ monitors' = [monitors EXCEPT ![nsEvent.Name][watcherContexts[nsEvent.Name]] =
                                       IF @ = "select" THEN "stopped" ELSE @]
    /\ watcherContexts' = deleteContext(watcherContexts, nsEvent.Name)
    /\ supPc' = "range"
    /\ UNCHANGED <<nsEvent, killedIn>>
    /\ UNCHANGED <<now, pc, selectAt, retaliateGracePeriod, podsStatus, clusterState,
                   podKilledCounter, lastEvent, replaced, ret, killed, killOutcome, killCalls,
                   lastKillAt, episodeKills, prevUnhealthy, lastSeen, envVars, testVars>>

\* the stop case without its return: the goroutine stays in its loop
StopDeliveredWithoutReturn ==
    /\ supPc = "send"
    /\ monitorOf(nsEvent.Name) = "select"
    /\ watcherContexts' = deleteContext(watcherContexts, nsEvent.Name)
    /\ supPc' = "range"
    /\ UNCHANGED <<monitors, nsEvent, killedIn>>
    /\ UNCHANGED <<now, pc, selectAt, retaliateGracePeriod, podsStatus, clusterState,
                   podKilledCounter, lastEvent, replaced, ret, killed, killOutcome, killCalls,
                   lastKillAt, episodeKills, prevUnhealthy, lastSeen, envVars, testVars>>

\* watcherContext.stop <- struct{}{} meets case <-context.stop of the
\* goroutine in its select: the goroutine stops its pod watch and returns,
\* the supervisor deletes the registry entry and goes back to its range loop
StopDelivered ==
    /\ supPc = "send"
    /\ monitorOf(nsEvent.Name) = "select"
    /\ monitors' = [monitors EXCEPT ![nsEvent.Name][watcherContexts[nsEvent.Name]] =
                                       "stopped"]
    /\ watcherContexts' = deleteContext(watcherContexts, nsEvent.Name)
    /\ supPc' = "range"
    /\ UNCHANGED <<nsEvent, killedIn>>
    /\ UNCHANGED <<now, pc, selectAt, retaliateGracePeriod, podsStatus, clusterState,
                   podKilledCounter, lastEvent, replaced, ret, killed, killOutcome, killCalls,
                   lastKillAt, episodeKills, prevUnhealthy, lastSeen, envVars, testVars>>

\* goroutine i of namespace ns moves from position from to position to
MonitorStep(ns, i, from, to) ==
    /\ i \in 1..Len(monitors[ns])
    /\ monitors[ns][i] = from
    /\ monitors' = [monitors EXCEPT ![ns][i] = to]
    /\ UNCHANGED <<watcherContexts, supPc, nsEvent>>
    /\ UNCHANGED <<now, pc, selectAt, retaliateGracePeriod, podsStatus, clusterState,
                   podKilledCounter, lastEvent, replaced, ret, killed, killOutcome, killCalls,
                   lastKillAt, episodeKills, prevUnhealthy, lastSeen, envVars, testVars>>

\* restart: Pods(namespace).Watch(...) succeeds
MonitorWatchPods(ns, i) ==
    MonitorStep(ns, i, "restart", "select") /\ UNCHANGED killedIn

\* restart: Watch returns an error, the goroutine logs it and returns
MonitorWatchPodsFailed(ns, i) ==
    MonitorStep(ns, i, "restart", "returned") /\ UNCHANGED killedIn

\* the select receives a tick or a pod event with an object
MonitorReceives(ns, i) ==
    MonitorStep(ns, i, "select", "cycle") /\ UNCHANGED killedIn

\* updateClusterState and retaliate, which may call killPod for the namespace
MonitorCycles(ns, i) ==
    /\ MonitorStep(ns, i, "cycle", "select")
    /\ killedIn' \in {killedIn, killedIn \cup {ns}}

\* the select receives a pod event without object: Stop and goto restart
MonitorPodStreamClosed(ns, i) ==
    MonitorStep(ns, i, "select", "restart") /\ UNCHANGED killedIn

\* a namespace name gets one goroutine at most (see HandleNamespaceEvent)
MonitorIndexes == {1}

WatchPodsOpens == \E ns \in Namespaces, i \in MonitorIndexes : MonitorWatchPods(ns, i)

WatchPodsFails == \E ns \in Namespaces, i \in MonitorIndexes : MonitorWatchPodsFailed(ns, i)

SelectReceives == \E ns \in Namespaces, i \in MonitorIndexes : MonitorReceives(ns, i)

CycleRuns == \E ns \in Namespaces, i \in MonitorIndexes : MonitorCycles(ns, i)

PodWatchCloses == \E ns \in Namespaces, i \in MonitorIndexes : MonitorPodStreamClosed(ns, i)

NextSup ==
    \/ WatchNamespaces
    \/ WatchNamespacesFailed
    \/ NamespaceAdded
    \/ NamespaceDeleted
    \/ NamespaceModified
    \/ NamespaceError
    \/ NamespaceStreamClosed
    \/ StopDelivered
    \/ WatchPodsOpens
    \/ WatchPodsFails
    \/ SelectReceives
    \/ CycleRuns
    \/ PodWatchCloses

SpecSup == Init /\ [][NextSup]_vars

\* The scheduling the goroutines rely on: a call of Watch returns, a cycle
\* ends, and a select whose stop case is ready again and again takes it
\* (Go picks among the ready cases at random).
FairSup ==
    /\ \A ns \in Namespaces, i \in MonitorIndexes :
          /\ WF_vars(MonitorWatchPods(ns, i) \/ MonitorWatchPodsFailed(ns, i))
          /\ WF_vars(MonitorCycles(ns, i))
    /\ SF_vars(StopDelivered)

SpecSupFair == Init /\ [][NextSup]_vars /\ FairSup

\* ------------------------------------------------------------ properties
\* a step that runs the tail of the loop body (merge, retaliate, reset)
MonitorCycle == LivenessTick \/ PodAddedOrModified \/ PodDeleted \/ PodError

unhealthyNames == DOMAIN clusterState.unhealthyPods

\* since of the state retaliate is handed in the step: the merge's instant
\* when it stored its candidate, the stored since otherwise
mergedSince == IF replaced' THEN now ELSE clusterState.since

NoDeletion ==
    /\ ret' = FALSE
    /\ killed' = <<>>
    /\ killCalls' = killCalls
    /\ podKilledCounter' = podKilledCounter

CycleKinds == {"Tick", "Pod"}

\* C1: with more than one unhealthy pod in the stored state, retaliate
\* returns false, calls killPod for no pod and leaves the kill counter alone,
\* at every instant (however long the state has lasted).
C1_KillingSpreeSafeguard ==
    /\ [](Cardinality(unhealthyNames) > 1 =>
            \A t \in clusterState.since..(MaxTime + retaliateGracePeriod) :
               retaliate(clusterState, retaliateGracePeriod, t)
                  = [ret |-> FALSE, calls |-> <<>>])
    /\ [][MonitorCycle /\ Cardinality(DOMAIN clusterState'.unhealthyPods) > 1
             => NoDeletion]_vars

\* a tick cycle ran retaliate on two unhealthy pods far beyond the grace period
C1_Witness ==
    /\ lastEvent = "Tick"
    /\ Cardinality(unhealthyNames) = 2
    /\ selectAt - clusterState.since > retaliateGracePeriod
    /\ ~ret /\ killed = <<>> /\ killCalls = 0

\* C2: while the stored health is HEALTHY retaliate returns false and calls
\* killPod for no pod, whatever since and the grace period are.
C2_HealthyNeverRetaliates ==
    /\ [](clusterState.health = HEALTHY =>
            \A t \in clusterState.since..(MaxTime + retaliateGracePeriod) :
               retaliate(clusterState, retaliateGracePeriod, t)
                  = [ret |-> FALSE, calls |-> <<>>])
    /\ [][MonitorCycle /\ clusterState'.health = HEALTHY => NoDeletion]_vars

\* a tick cycle ran retaliate on a HEALTHY namespace with pods, the grace
\* period long elapsed
C2_Witness ==
    /\ lastEvent = "Tick"
    /\ clusterState.health = HEALTHY
    /\ DOMAIN podsStatus # {}
    /\ selectAt - clusterState.since >= retaliateGracePeriod
    /\ ~ret /\ killed = <<>>

\* C3: while UNHEALTHY and now - since < grace period, retaliate returns
\* false and deletes nothing; a cycle that changes the unhealthy membership
\* leaves since at the instant of the change and deletes nothing.
C3_GracePeriodHoldsBack ==
    [][MonitorCycle
          => /\ (clusterState'.health = UNHEALTHY
                   /\ now - mergedSince < retaliateGracePeriod) => NoDeletion
             /\ DOMAIN clusterState'.unhealthyPods # unhealthyNames
                   => clusterState'.since = now /\ NoDeletion]_vars

\* one of two pods that had been unhealthy beyond the grace period recovered:
\* since is the instant of the change and nothing was deleted
C3_Witness ==
    /\ lastEvent = "Pod"
    /\ Cardinality(prevUnhealthy) = 2
    /\ Cardinality(unhealthyNames) = 1
    /\ DOMAIN podsStatus = prevUnhealthy
    /\ replaced
    /\ clusterState.since = selectAt
    /\ selectAt >= retaliateGracePeriod
    /\ ~ret /\ killed = <<>>

\* C4: UNHEALTHY with exactly one unhealthy pod p and now - since >= grace
\* period (equality included): retaliate returns true and calls killPod
\* exactly once, with the namespace, p and the observation stored for p.
C4_RetaliatesOnSinglePod ==
    [][MonitorCycle /\ clusterState'.health = UNHEALTHY
          /\ Cardinality(DOMAIN clusterState'.unhealthyPods) = 1
          /\ now - mergedSince >= retaliateGracePeriod
          => /\ ret' = TRUE
             /\ \E p \in DOMAIN clusterState'.unhealthyPods :
                   killed' = <<[namespace |-> namespaceName, podName |-> p,
                                pod |-> clusterState'.unhealthyPods[p]]>>
             /\ killCalls' = killCalls + 1]_vars

\* retaliate acted on one of two tracked pods, with the observation the
\* ClusterState stored, which is no longer the one in the pod table
C4_Witness ==
    /\ lastEvent \in CycleKinds
    /\ ret
    /\ Len(killed) = 1
    /\ Cardinality(DOMAIN podsStatus) = 2
    /\ killed[1].podName \in DOMAIN podsStatus
    /\ killed[1].pod # podsStatus[killed[1].podName]
    /\ killed[1].pod = clusterState.unhealthyPods[killed[1].podName]

\* C5: a cycle in which retaliate acts leaves since at the current time, and
\* it comes at least one grace period after the previous killPod invocation.
C5_SinceResetSpacesKills ==
    [][MonitorCycle /\ (ret' \/ killCalls' # killCalls)
          => /\ clusterState'.since = now
             /\ lastKillAt' = now
             /\ (killCalls > 0 => now - lastKillAt >= retaliateGracePeriod)]_vars

\* a second invocation has just happened
C5_Witness ==
    /\ lastEvent \in CycleKinds
    /\ ret
    /\ killCalls >= 2
    /\ lastKillAt = selectAt
    /\ clusterState.since = selectAt

\* C6 as stated: within one episode (no merge stored a candidate) killPod is
\* invoked at most once.
C6_Original == episodeKills <= 1

\* C6 amended: within one episode, once killPod has been invoked, a later
\* cycle invokes it again exactly when a further full grace period has
\* elapsed since that invocation, for the same pod.
C6_OncePerGracePeriod ==
    [][MonitorCycle /\ ~replaced' /\ episodeKills >= 1
          => /\ ret' = (now - lastKillAt >= retaliateGracePeriod)
             /\ (ret' => /\ \E p \in unhealthyNames :
                               killed' = <<[namespace |-> namespaceName, podName |-> p,
                                            pod |-> clusterState.unhealthyPods[p]]>>
                         /\ episodeKills' = episodeKills + 1)
             /\ (~ret' => episodeKills' = episodeKills)]_vars

\* the same pod was the target twice in one episode
C6_Witness ==
    /\ lastEvent \in CycleKinds
    /\ episodeKills >= 2
    /\ ret
    /\ ~replaced
    /\ Len(killed) = 1

\* C7: a cycle that finds the pod table as the previous cycle left it stores
\* no candidate: the stored state and its since stay as they were, whatever
\* the clock shows, and a repeated updateClusterState changes nothing.
C7_MergeIdempotence ==
    /\ [](\A t1 \in now..MaxTime : \A t2 \in t1..MaxTime :
            updateClusterState(podsStatus,
                               updateClusterState(podsStatus, clusterState, t1), t2)
               = updateClusterState(podsStatus, clusterState, t1))
    /\ [][MonitorCycle /\ podsStatus' = podsStatus
             => /\ ~replaced'
                /\ clusterState'.health = clusterState.health
                /\ clusterState'.unhealthyPods = clusterState.unhealthyPods
                /\ (~ret' => clusterState' = clusterState)]_vars

\* a tick re-evaluated an unhealthy table later than since and kept the state
C7_Witness ==
    /\ lastEvent = "Tick"
    /\ clusterState.health = UNHEALTHY
    /\ ~replaced
    /\ ~ret
    /\ clusterState.since < selectAt

\* the classifier's rule in the words of the specification
Unhealthy(pod) ==
    \/ pod.Phase # "Running"
    \/ \E i \in 1..Len(pod.Conditions) : pod.Conditions[i].Status # "True"

UnhealthyIn(pods) == {n \in DOMAIN pods : Unhealthy(pods[n])}

\* the candidate for table pods differs materially from the stored state old
MaterialChange(old, pods) ==
    \/ (old.health = HEALTHY) # (UnhealthyIn(pods) = {})
    \/ DOMAIN old.unhealthyPods # UnhealthyIn(pods)
    \/ \E n \in DOMAIN old.unhealthyPods \cap UnhealthyIn(pods) :
          \/ old.unhealthyPods[n].Phase # pods[n].Phase
          \/ old.unhealthyPods[n].Conditions # pods[n].Conditions

\* the event of the step touched only pods that are healthy (or absent)
\* before and after
OnlyHealthyTouched ==
    \A n \in PodNames :
       \/ /\ n \in DOMAIN podsStatus /\ n \in DOMAIN podsStatus'
          /\ podsStatus'[n] = podsStatus[n]
       \/ /\ n \notin DOMAIN podsStatus /\ n \notin DOMAIN podsStatus'
       \/ /\ n \in DOMAIN podsStatus => ~Unhealthy(podsStatus[n])
          /\ n \in DOMAIN podsStatus' => ~Unhealthy(podsStatus'[n])

\* C8: updateClusterState stores the candidate (since = now) if and only if
\* it differs in health, in the set of unhealthy names, or in the phase or
\* conditions of a pod unhealthy in both; rewriting only pods that are
\* healthy before and after never does.
C8_MergeRule ==
    [][TestUpdateClusterState
          => /\ replaced' = MaterialChange(clusterState, podsStatus')
             /\ (replaced' =>
                   /\ clusterState'.since = now
                   /\ clusterState'.unhealthyPods =
                         [n \in UnhealthyIn(podsStatus') |-> podsStatus'[n]])
             /\ (~replaced' => clusterState' = clusterState)
             /\ (OnlyHealthyTouched => ~replaced')]_vars

\* one unhealthy name was swapped for another (same set size) and the
\* candidate was stored, later than the state it replaced
C8_Witness ==
    /\ lastEvent = "Test"
    /\ replaced
    /\ Cardinality(prevUnhealthy) = 1
    /\ Cardinality(unhealthyNames) = 1
    /\ prevUnhealthy # unhealthyNames
    /\ clusterState.since = now
    /\ now > 0

\* C9: the stored health is UNHEALTHY exactly when the unhealthy mapping is
\* not empty.
C9_HealthIffUnhealthyPods ==
    (clusterState.health = UNHEALTHY) <=> (unhealthyNames # {})

\* an UNHEALTHY state after a retaliation reset its since
C9_Witness ==
    /\ clusterState.health = UNHEALTHY
    /\ unhealthyNames # {}
    /\ ret
    /\ killCalls > 0

\* C10: a pod is classified healthy exactly when its phase is Running and
\* every one of its conditions has status True.
C10_HealthClassifier ==
    /\ \A n \in DOMAIN podsStatus :
          isPodHealthy(podsStatus[n]) <=>
             /\ podsStatus[n].Phase = "Running"
             /\ \A i \in 1..Len(podsStatus[n].Conditions) :
                   podsStatus[n].Conditions[i].Status = "True"
    /\ \A n \in DOMAIN podsStatus :
          (n \in unhealthyNames) <=>
             \/ podsStatus[n].Phase # "Running"
             \/ \E i \in 1..Len(podsStatus[n].Conditions) :
                   podsStatus[n].Conditions[i].Status \in {"False", "Unknown"}

\* a Running pod without conditions is healthy next to a Pending pod whose
\* conditions are all True, which is unhealthy
C10_Witness ==
    /\ lastEvent \in CycleKinds
    /\ \E n \in DOMAIN podsStatus :
          /\ podsStatus[n] = Pod("Running", <<>>, "")
          /\ n \notin unhealthyNames
    /\ \E n \in DOMAIN podsStatus :
          /\ podsStatus[n] = Pod("Pending", <<Cond("PodScheduled", "True")>>, "")
          /\ n \in unhealthyNames

\* C11: evaluateClusterState returns the table entries that fail the
\* classifier, each with the observation of the table, and health HEALTHY
\* exactly when there is none (an empty table gives HEALTHY and an empty
\* mapping); the call leaves the pod table and the stored state as they were.
C11_EvaluateClusterState ==
    [][TestClusterState
          => /\ DOMAIN candidate'.unhealthyPods = UnhealthyIn(podsStatus)
             /\ \A n \in UnhealthyIn(podsStatus) :
                   candidate'.unhealthyPods[n] = podsStatus[n]
             /\ (candidate'.health = HEALTHY) <=> (UnhealthyIn(podsStatus) = {})
             /\ candidate'.health \in {HEALTHY, UNHEALTHY}
             /\ (DOMAIN podsStatus = {} =>
                    /\ candidate'.health = HEALTHY
                    /\ candidate'.unhealthyPods = EmptyMap)
             /\ podsStatus' = podsStatus
             /\ clusterState' = clusterState]_vars

\* a table of one healthy and one unhealthy pod was evaluated, later than
\* the stored state was made
C11_Witness ==
    /\ Cardinality(DOMAIN podsStatus) = 2
    /\ Cardinality(DOMAIN candidate.unhealthyPods) = 1
    /\ candidate.since > clusterState.since

\* C12: an Added event for a namespace already in the registry changes
\* nothing; no step overwrites a registry entry; no namespace ever has two
\* goroutines in their loop at the same time.
C12_OneMonitorPerNamespace ==
    /\ [](\A ns \in Namespaces : Cardinality(runningMonitors(ns)) <= 1)
    /\ [][/\ \A ns \in DOMAIN watcherContexts \cap DOMAIN watcherContexts' :
                watcherContexts'[ns] = watcherContexts[ns]
           /\ \A name \in DOMAIN watcherContexts :
                HandleNamespaceEvent("Added", name)
                   => UNCHANGED <<watcherContexts, monitors, supPc, killedIn>>]_vars

\* after a new subscription, an Added event arrived for a namespace whose
\* goroutine was in its loop
C12_Witness ==
    /\ supPc = "range"
    /\ nsEvent = NsEvent("Added", "mem-1", TRUE)
    /\ monitors["mem-1"] = <<"select">>
    /\ DOMAIN watcherContexts = {"mem-1"}

\* the namespaces whose name the filter matches
Eligible == {ns \in Namespaces : ns \in {"mem-1"}}

\* C13: every namespace of the registry matches the filter; an Added event
\* for a namespace that does not match creates no entry and starts no
\* goroutine; killPod is never invoked for a pod of such a namespace.
C13_OnlyEligibleNamespaces ==
    /\ [](/\ DOMAIN watcherContexts \subseteq Eligible
           /\ \A ns \in Namespaces \ Eligible : monitors[ns] = <<>>
           /\ killedIn \subseteq Eligible)
    /\ [][\A name \in Namespaces \ Eligible :
             HandleNamespaceEvent("Added", name)
                => UNCHANGED <<watcherContexts, monitors, supPc, killedIn>>]_vars

\* an Added event for kube-system was handled while the goroutine of mem-1,
\* which has invoked killPod, is in its loop
C13_Witness ==
    /\ nsEvent = NsEvent("Added", "kube-system", FALSE)
    /\ supPc = "range"
    /\ monitors["kube-system"] = <<>>
    /\ DOMAIN watcherContexts = {"mem-1"}
    /\ monitorOf("mem-1") = "select"
    /\ killedIn = {"mem-1"}

\* C14: whenever the supervisor handles a Deleted event of a registered
\* namespace, it eventually has delivered the stop signal, removed the
\* registry entry and gone back to consuming namespace events, whatever the
\* goroutine of the namespace is doing, terminated after a failed Watch
\* included.
C14_DeletedCompletes ==
    \A ns \in Namespaces :
       (supPc = "send" /\ nsEvent.Name = ns)
          ~> (supPc = "range" /\ ns \notin DOMAIN watcherContexts)

\* goroutine i of namespace ns is the one the supervisor is sending stop to
StopOffered(ns, i) ==
    /\ supPc = "send"
    /\ nsEvent.Name = ns
    /\ ns \in DOMAIN watcherContexts
    /\ watcherContexts[ns] = i

\* C15: the step in which a goroutine receives the stop signal takes it out
\* of its loop without a cycle (no killPod), and it never moves again; a
\* goroutine in its loop to which the supervisor is sending the signal
\* eventually leaves its loop, even when ticks and pod events keep arriving.
C15_StopTerminatesMonitor ==
    /\ [][StopDelivered
             => /\ monitors'[nsEvent.Name][watcherContexts[nsEvent.Name]] = "stopped"
                /\ killedIn' = killedIn]_vars
    /\ [][\A ns \in Namespaces : \A i \in 1..Len(monitors[ns]) :
             monitors[ns][i] = "stopped" => monitors'[ns][i] = "stopped"]_vars
    /\ \A ns \in Namespaces : \A i \in MonitorIndexes :
          (StopOffered(ns, i) /\ monitors[ns][i] \in Running)
             ~> (i \in 1..Len(monitors[ns]) /\ monitors[ns][i] \notin Running)

\* the goroutine of mem-1, which had run cycles and invoked killPod, has
\* received the stop signal and the supervisor is back in its range loop
C15_Witness ==
    /\ monitors["mem-1"] = <<"stopped">>
    /\ killedIn = {"mem-1"}
    /\ nsEvent = NsEvent("Deleted", "mem-1", TRUE)
    /\ supPc = "range"
    /\ DOMAIN watcherContexts = {}

\* C16: a Modified event, for any namespace, and a Deleted event for a
\* namespace that is not in the registry leave the registry as it is, start
\* and stop no goroutine and send no stop signal.
C16_ModifiedAndUnknownDeleted ==
    [][\A name \in Namespaces :
          \/ HandleNamespaceEvent("Modified", name)
          \/ (name \notin DOMAIN watcherContexts /\ HandleNamespaceEvent("Deleted", name))
          => /\ UNCHANGED <<watcherContexts, monitors, killedIn>>
             /\ supPc' = "range"]_vars

\* a Modified event for mem-1 was handled after its goroutine had been
\* stopped and its entry removed
C16_Witness ==
    /\ nsEvent = NsEvent("Modified", "mem-1", FALSE)
    /\ monitors["mem-1"] = <<"stopped">>
    /\ DOMAIN watcherContexts = {}
    /\ supPc = "range"

\* C17: the step that handles an error without object or a closed namespace
\* stream, and the step that follows it in the supervisor (the new
\* subscription), leave the registry and every goroutine as they are, the
\* supervisor ending in its range loop; an Added event for a namespace of
\* the registry starts nothing.
C17_ResubscribeKeepsRegistry ==
    [][/\ (HandleNamespaceEvent("Error", NoObject) \/ NamespaceStreamClosed)
             => /\ supPc' = "watch"
                /\ UNCHANGED <<watcherContexts, monitors, killedIn>>
       /\ (supPc = "watch" /\ nsEvent.Type \in {"Error", "Closed"} /\ supPc' # supPc)
             => /\ supPc' = "range"
                /\ UNCHANGED <<watcherContexts, monitors, killedIn>>
       /\ \A name \in DOMAIN watcherContexts :
             HandleNamespaceEvent("Added", name)
                => UNCHANGED <<watcherContexts, monitors>>]_vars

\* C18: the step in which the monitor finds its pod stream closed (or an
\* error without object) and the step in which it opens the new watch leave
\* the pod table and the stored ClusterState (health, mapping, since) as
\* they were; the new watch is for the same namespace.
C18_ReconnectKeepsState ==
    [][(PodStreamClosed \/ WatchPods)
          => /\ podsStatus' = podsStatus
             /\ clusterState' = clusterState
             /\ retaliateGracePeriod' = retaliateGracePeriod
             /\ podKilledCounter' = podKilledCounter
             /\ (PodStreamClosed => pc' = "restart")
             /\ (WatchPods => pc' = "select")]_vars

\* the monitor is back in its select after a closed stream, with a table of
\* two pods and an UNHEALTHY state older than the reconnect
C18_Witness ==
    /\ pc = "select"
    /\ lastEvent = "Closed"
    /\ Cardinality(DOMAIN podsStatus) = 2
    /\ clusterState.health = UNHEALTHY
    /\ clusterState.since < selectAt

\* The step ran one full cycle on the table the event left: the candidate
\* was merged into the stored state, retaliation then judged the merged
\* state, and since was reset when it acted.
CycleRan ==
    LET change == MaterialChange(clusterState, podsStatus')
        names  == IF change THEN UnhealthyIn(podsStatus') ELSE unhealthyNames
        since0 == IF change THEN now ELSE clusterState.since
        due    == Cardinality(names) = 1 /\ now - since0 >= retaliateGracePeriod
    IN /\ DOMAIN clusterState'.unhealthyPods = names
       /\ (clusterState'.health = UNHEALTHY) <=> (names # {})
       /\ clusterState'.since = IF due THEN now ELSE since0
       /\ killCalls' = killCalls + (IF due THEN 1 ELSE 0)
       /\ podKilledCounter' = podKilledCounter + (IF due THEN 1 ELSE 0)

\* C19 as stated: every handled tick, pod event and stream-closed/error
\* event is followed by one full cycle before the next event.
C19_Original ==
    [][(MonitorCycle \/ PodStreamClosed) => CycleRan]_vars

\* C19 amended: a handled tick, pod lifecycle event or error event with an
\* object is followed by one full cycle (merge, then retaliation on the
\* merged state) within the same iteration; a closed stream (an event without
\* object) sends the monitor to a new subscription without a cycle: table,
\* stored state and kill counter stay as they were.
C19_CycleAfterEvent ==
    /\ [][MonitorCycle => CycleRan /\ pc' = "select"]_vars
    /\ [][PodStreamClosed
             => /\ pc' = "restart"
                /\ UNCHANGED <<podsStatus, clusterState, killCalls, podKilledCounter>>]_vars

\* the stream closed when the only unhealthy pod had been unhealthy for the
\* grace period: a cycle would have invoked killPod, none ran
C19_Witness ==
    /\ pc = "restart"
    /\ lastEvent = "Closed"
    /\ Cardinality(unhealthyNames) = 1
    /\ now - clusterState.since >= retaliateGracePeriod
    /\ now = selectAt + 1
    /\ killCalls = 0

\* C20: the pod table holds exactly the pods whose last event was Added or
\* Modified, each with the status that event carried (a pod whose last event
\* was Deleted is absent); a step changes the entry of at most one name.
C20_PodTableFollowsEvents ==
    /\ [](podsStatus = lastSeen)
    /\ [][\E n \in PodNames : \A m \in PodNames \ {n} :
             /\ (m \in DOMAIN podsStatus') <=> (m \in DOMAIN podsStatus)
             /\ m \in DOMAIN podsStatus => podsStatus'[m] = podsStatus[m]]_vars

\* of two tracked pods, both unhealthy, toto1 was deleted by the last event
\* and toto2 kept its entry
C20_Witness ==
    /\ lastEvent = "Pod"
    /\ prevUnhealthy = {"toto1", "toto2"}
    /\ DOMAIN podsStatus = {"toto2"}
    /\ Unhealthy(podsStatus["toto2"])
    /\ podsStatus = lastSeen

\* C23: once the first watch of the namespaces is open, the process never
\* ends, whatever stream error, failed subscription or event follows.
C23_ProcessNeverExits ==
    supPc = "exited" => nsEvent.Type = "None"

\* C24: while the process runs, a goroutine that has left its loop has
\* received the stop signal, and every namespace of the registry has its
\* goroutine in its loop.
C24_TerminatedOnlyByStop ==
    supPc # "exited" =>
       /\ \A ns \in Namespaces : \A i \in 1..Len(monitors[ns]) :
             monitors[ns][i] \in Running \cup {"stopped"}
       /\ \A ns \in DOMAIN watcherContexts : monitorOf(ns) \in Running

\* C26: an Added event for a namespace that matches the filter and is not in
\* the registry registers a context and starts a goroutine for it, also when
\* the name was registered and deleted before, and leaves the supervisor in
\* its range loop.
C26_AddedStartsMonitor ==
    [][\A name \in Eligible \ DOMAIN watcherContexts :
          HandleNamespaceEvent("Added", name)
             => /\ name \in DOMAIN watcherContexts'
                /\ Len(monitors'[name]) = Len(monitors[name]) + 1
                /\ monitors'[name][watcherContexts'[name]] = "restart"
                /\ supPc' = "range"]_vars

\* C28: a namespace that a Deleted event has taken out of the registry has
\* no goroutine in its loop; no killPod is invoked for it and none of its
\* goroutines moves (so none writes its pod table) while it stays out.
C28_RemovedMonitorIsInert ==
    /\ [](\A ns \in Namespaces \ DOMAIN watcherContexts : runningMonitors(ns) = {})
    /\ [][\A ns \in Namespaces \ DOMAIN watcherContexts :
             ns \notin DOMAIN watcherContexts'
                => /\ monitors'[ns] = monitors[ns]
                   /\ (ns \in killedIn') = (ns \in killedIn)]_vars
    /\ [][StopDelivered => monitorOf(nsEvent.Name) = "select"]_vars

\* the goroutine of mem-1 has received the stop signal, its entry is removed
\* and the supervisor has handled a later event
C28_Witness ==
    /\ monitors["mem-1"] = <<"stopped">>
    /\ "mem-1" \notin DOMAIN watcherContexts
    /\ supPc = "range"
    /\ nsEvent.Type \in {"Modified", "Error"}

\* C25: the stored since never exceeds the clock and never decreases; a step
\* that changes it sets it to the current time, and is either a merge that
\* adopted a materially different candidate or a cycle in which retaliate
\* acted.
C25_SinceMonotone ==
    /\ [](clusterState.since <= now)
    /\ [][/\ clusterState'.since >= clusterState.since
           /\ clusterState'.since # clusterState.since
                 => /\ clusterState'.since = now
                    /\ MonitorCycle
                    /\ \/ MaterialChange(clusterState, podsStatus')
                       \/ killCalls' = killCalls + 1]_vars

\* since moved forward at a retaliation and again, later, at a material
\* change
C25_Witness ==
    /\ lastEvent = "Pod"
    /\ replaced
    /\ ~ret
    /\ killCalls > 0
    /\ lastKillAt > 0
    /\ clusterState.since > lastKillAt
    /\ clusterState.since = selectAt

\* C22: a cycle in which the deletion failed still has retaliate return true
\* and since set to the current time, and it calls killPod once, with no
\* second attempt; whenever killPod is called after an earlier call, a full
\* grace period has passed since that call and the stored state is UNHEALTHY.
C22_FailedDeletionOnlyLogged ==
    /\ [][(MonitorCycle /\ killOutcome' = "failed")
             => /\ ret'
                /\ clusterState'.since = now
                /\ Len(killed') = 1
                /\ killCalls' = killCalls + 1]_vars
    /\ [][(MonitorCycle /\ killed' # <<>> /\ killCalls > 0)
             => /\ now - lastKillAt >= retaliateGracePeriod
                /\ clusterState'.health = UNHEALTHY]_vars

\* a deletion failed at the second retaliation of the run
C22_Witness ==
    /\ killOutcome = "failed"
    /\ ret
    /\ killCalls = 2
    /\ lastKillAt = now
    /\ clusterState.since = now

\* C27: the kill counter equals the number of killPod invocations in every
\* state and never decreases; a cycle adds one per invocation, whether the
\* deletion succeeded, failed or was a dry run, and nothing when retaliate
\* returned false.
C27_KillCounterCountsInvocations ==
    /\ [](podKilledCounter = killCalls)
    /\ [][podKilledCounter' >= podKilledCounter]_vars
    /\ [][MonitorCycle
             => /\ podKilledCounter' = podKilledCounter + Len(killed')
                /\ killOutcome' \in {"deleted", "failed", "fake"}
                      => podKilledCounter' = podKilledCounter + 1
                /\ ~ret' => podKilledCounter' = podKilledCounter]_vars

\* a dry-run deletion counted after an earlier invocation
C27_Witness ==
    /\ killOutcome = "fake"
    /\ podKilledCounter = 2
    /\ killCalls = 2


\* C21: from a state where the monitor is in its select, stores one unhealthy
\* pod and has a stalled pod stream, a tick eventually runs a cycle in which
\* retaliate calls killPod (the clock being able to reach the end of the
\* grace period).
C21_TickDrivesRetaliation ==
    (/\ silent
     /\ pc = "select"
     /\ Cardinality(unhealthyNames) = 1
     /\ selectAt < MaxTime
     /\ clusterState.since + retaliateGracePeriod <= MaxTime)
    ~> (/\ silent
        /\ lastEvent = "Tick"
        /\ ret
        /\ Len(killed) = 1
        /\ lastKillAt = now
        /\ now - selectAt < TickInterval)

\* the stream stalled with one unhealthy pod, no deletion had been invoked,
\* and a tick invoked it
C21_Witness ==
    /\ silent
    /\ lastEvent = "Tick"
    /\ ret
    /\ killCalls = 1
    /\ Len(killed) = 1
    /\ DOMAIN podsStatus = PodNames


\* C29: once a resubscribed pod stream has replayed its Added events, every
\* pod of the table, and every pod stored as unhealthy, is a pod the
\* namespace has.
C29_ReplayDropsDeletedPods ==
    (pc = "select" /\ pending = {})
       => /\ DOMAIN podsStatus \subseteq DOMAIN clusterPods
          /\ unhealthyNames \subseteq DOMAIN clusterPods

====
